---- MODULE Spec2Model ----
(***************************************************************************)
(* The VPN control daemon of vpn_handler: the accept loop of main(), the   *)
(* Runner thread it spawns (runner() inside the spawned closure), the      *)
(* hourly log task check_for_updates(), the two mutexes they share, the    *)
(* cancel flag KILL_RUNNER, the Handler's child handle and the VPN client  *)
(* processes of the operating system.                                      *)
(*                                                                         *)
(* A step is what one thread does between two points where another thread  *)
(* can see or block it: a lock, the flag, a join, a spawn, a blocking read. *)
(* The outcomes of I/O (stream writes, log writes, serial reads, spawn,     *)
(* kill, notifier sends) are chosen by the environment in each step.        *)
(* Not modelled: a failing accept (stream.unwrap() in main), and the time   *)
(* the sleeps take.                                                         *)
(*                                                                         *)
(* HandlerSpec, NotifierSpec, LoggerSpec and ConfigSpec use one component  *)
(* by itself, as the crate's unit tests do, on every sequence of calls and *)
(* every outcome of its I/O, and WriteSpec follows write_to_stream turn by *)
(* turn; `call` records the last call and what it returned.                *)
(***************************************************************************)
EXTENDS Integers, Sequences, FiniteSets, TLC

\* ------------------------------------------------------------------ bounds
\* Runner threads the daemon may spawn in one behaviour.
MaxRunners == 3
\* VPN client processes that may be spawned in one behaviour.
MaxProcs == 2
\* "Turn On" messages one Runner may read between two acted "Turn Off".
MaxRun == 2
\* The instants of the clock the model tells apart within one second
\* (Local::now() has nanoseconds; a log header has whole seconds).
TicksPerSecond == 1000
\* Writes to the client stream followed within one write_to_stream call.
MaxWrites == 10

\* ------------------------------------------------------- program constants
BUFFER_LEN == 7
SERIAL_BUFFER_LEN == 9
WRITE_RETRIES == 5
PROFILE_FILES == 458
SPAWN_ATTEMPTS == 10
KILL_ATTEMPTS == 10
SEND_ATTEMPTS == 10
CONNECT_ATTEMPTS == 10
ROTATE_HOURS == 24
SECONDS_PER_HOUR == 3600
ON == 255
OFF == 0

VARIABLES
  dpc,              \* accept loop: where main() stands
  process,          \* main: Option<JoinHandle<()>>, 0 is None, else the thread
  KILL_RUNNER,      \* static AtomicBool
  command,          \* the trimmed command of the current connection
  tracked,          \* whether `process` was Some when that command was read
  handle,           \* the JoinHandle taken by `stop`
  wmsg,             \* write_to_stream: the message being written, or NoMsg
  attempt,          \* write_to_stream: its local `attempt`
  replies,          \* the lines written to the current connection's stream
  nrunners,         \* Runner threads spawned so far
  rpc,              \* per Runner thread: where it stands
  previous_command, \* per Runner thread: runner()'s local
  child,            \* per Runner thread: handler.child, 0 is None
  files,            \* per Runner thread: handler.config.files.len()
  runStarts,        \* per Runner thread: Handler::start calls since previous_command last left ON
  emitted,          \* per Runner thread: the status the running Runner last sent, if any
  runConn,          \* per Runner thread: STATUS Connected sent since previous_command last left ON
  runOns,           \* per Runner thread: "Turn On" messages read since previous_command last left ON
  procs,            \* the VPN client processes spawned, in order
  hpc,              \* the hourly task: where it stands
  loggerOwner,      \* Mutex<Logger>: who holds it across steps
  notifierOwner,    \* Mutex<Notifier>: who holds it across steps
  loggerPoisoned,   \* Mutex<Logger> is poisoned
  notifierPoisoned, \* Mutex<Notifier> is poisoned
  call              \* the last call made on a component used by itself, as
                    \* the crate's tests use it: operation, inputs, outcome

vars == << dpc, process, KILL_RUNNER, command, tracked, handle, wmsg, attempt,
           replies, nrunners, rpc, previous_command, child, files, runStarts,
           runConn, runOns, emitted, procs, hpc, loggerOwner, notifierOwner, loggerPoisoned,
           notifierPoisoned, call >>

daemonVars == << dpc, process, KILL_RUNNER, command, tracked, handle, wmsg,
                 attempt, replies >>
runnerVars == << nrunners, rpc, previous_command, child, files, runStarts,
                 runConn, runOns, emitted, procs >>
lockVars == << loggerOwner, notifierOwner, loggerPoisoned, notifierPoisoned >>

Threads == 1..MaxRunners
NoMsg == "-"
Free == "free"
NoThread == 0
NoStatus == "-"
NoCall == [op |-> "none", result |-> "none"]

\* ----------------------------------------------------------------- strings
\* A string is a tuple of one-character strings.
Whitespace == {" ", "\n", "\r", "\t"}

RECURSIVE TrimStart(_)
TrimStart(s) ==
  IF s # << >> /\ Head(s) \in Whitespace THEN TrimStart(Tail(s)) ELSE s

RECURSIVE TrimEnd(_)
TrimEnd(s) ==
  IF s # << >> /\ s[Len(s)] \in Whitespace
  THEN TrimEnd(SubSeq(s, 1, Len(s) - 1))
  ELSE s

\* str::trim
Trim(s) == TrimEnd(TrimStart(s))

\* stream.read(&mut buffer): at most the buffer's length of the bytes sent
ReadInto(len, sent) == SubSeq(sent, 1, IF Len(sent) < len THEN Len(sent) ELSE len)

CmdStatus == << "s", "t", "a", "t", "u", "s" >>
CmdStart == << "s", "t", "a", "r", "t" >>
CmdStop == << "s", "t", "o", "p" >>
NoCommand == << "-" >>

\* What a client may send on the control socket.
ClientBytes ==
  { CmdStatus, CmdStatus \o << "\n" >>, CmdStatus \o << " ", "x" >>,
    CmdStart, CmdStart \o << "\n" >>, << " " >> \o CmdStart,
    CmdStop, CmdStop \o << "\n" >>, CmdStop \o << " ", "i", "t" >>,
    << "h", "e", "l", "p" >>, << >> }

MsgTurnOn == << "T", "u", "r", "n", " ", "O", "n" >>
MsgTurnOff == << "T", "u", "r", "n", " ", "O", "f", "f" >>

\* What the switch firmware may deliver to one port.read, whole or in pieces.
SerialBytes ==
  { MsgTurnOn \o << "\n" >>, MsgTurnOff \o << "\n" >>,
    MsgTurnOn, MsgTurnOff, << "\n" >> \o MsgTurnOn \o << "\n" >>,
    << "f", "f", "\n", "T", "u", "r" >>, << "\n" >>, << >> }

\* ------------------------------------------------------------------ helpers
TypeOK ==
  /\ dpc \in {"accept", "read", "start_log", "join", "stop_err", "stop_log",
              "rderr_log", "panicked"}
  /\ process \in 0..MaxRunners
  /\ KILL_RUNNER \in BOOLEAN
  /\ tracked \in BOOLEAN
  /\ handle \in 0..MaxRunners
  /\ attempt \in 0..WRITE_RETRIES
  /\ nrunners \in 0..MaxRunners
  /\ runStarts \in [Threads -> 0..2]
  /\ runConn \in [Threads -> 0..2]
  /\ emitted \in [Threads -> {NoStatus, "STATUS Connected", "STATUS Disconnected"}]
  /\ runOns \in [Threads -> 0..MaxRun]
  /\ rpc \in [Threads -> {"unborn", "open", "loop", "read", "on_notify", "on_log",
                          "off_notify", "off_log", "err", "reset", "done",
                          "panicked"}]
  /\ previous_command \in [Threads -> {OFF, ON}]
  /\ child \in [Threads -> 0..MaxProcs]
  /\ files \in [Threads -> {0, PROFILE_FILES}]
  /\ Len(procs) <= MaxProcs
  /\ hpc \in {"sleep", "rotating", "failed", "notify", "panicked"}
  /\ loggerOwner \in {Free, "hourly"}
  /\ notifierOwner \in {NoThread} \cup Threads
  /\ loggerPoisoned \in BOOLEAN
  /\ notifierPoisoned \in BOOLEAN

\* A logger mutex that never makes a thread wait.
LoggerFreeAlways == TRUE

\* logger.lock() returns: no other thread holds the Mutex<Logger>.
LoggerFree == loggerOwner = Free

\* The daemon process is alive: a panic of the main thread ends the process.
DaemonUp == dpc # "panicked"

\* Thread t has been spawned and its closure has not returned or unwound.
RunnerAlive(t) == DaemonUp /\ rpc[t] \notin {"unborn", "done", "panicked"}

AliveProcs == { p \in 1..Len(procs) : procs[p].alive }

\* ------------------------------------------------------------ Handler
\* Handler::start's loop `for _ in 0..10`: spawn attempt n of the loop, when the
\* first spawn that succeeds is attempt firstOk. First, a loop that gives up
\* one attempt early.
RECURSIVE SpawnLoopOneShort(_, _)
SpawnLoopOneShort(n, firstOk) ==
  IF n > SPAWN_ATTEMPTS - 1 THEN [ok |-> FALSE, attempts |-> SPAWN_ATTEMPTS - 1]
  ELSE IF n = firstOk THEN [ok |-> TRUE, attempts |-> n]
  ELSE SpawnLoopOneShort(n + 1, firstOk)

RECURSIVE SpawnLoop(_, _)
SpawnLoop(n, firstOk) ==
  IF n > SPAWN_ATTEMPTS THEN [ok |-> FALSE, attempts |-> SPAWN_ATTEMPTS]
  ELSE IF n = firstOk THEN [ok |-> TRUE, attempts |-> n]
  ELSE SpawnLoop(n + 1, firstOk)

\* A start without the `if let Some(_) = self.child` check.
HandlerStartUnchecked(c, nfiles, firstOk) ==
  IF nfiles = 0 THEN "panic"
  ELSE IF SpawnLoop(1, firstOk).ok THEN "Ok"
  ELSE "Other"

\* Handler::start on a handler with child c and nfiles profile files.
HandlerStart(c, nfiles, firstOk) ==
  IF c # 0 THEN "AlreadyExists"
  ELSE IF nfiles = 0 THEN "panic"   \* random_range(0..0) in get_random_file_path
  ELSE IF SpawnLoop(1, firstOk).ok THEN "Ok"
  ELSE "Other"

\* Handler::stop's loop `for _ in 0..10` over child.kill().
RECURSIVE KillLoop(_, _)
KillLoop(n, firstOk) ==
  IF n > KILL_ATTEMPTS THEN [ok |-> FALSE, attempts |-> KILL_ATTEMPTS]
  ELSE IF n = firstOk THEN [ok |-> TRUE, attempts |-> n]
  ELSE KillLoop(n + 1, firstOk)

\* A stop without the `None => Ok(())` arm: it goes through the kill loop
\* whether or not there is a child.
HandlerStopWithoutNoneArm(c, firstOk) ==
  IF KillLoop(1, firstOk).ok THEN [result |-> "Ok", killed |-> c # 0]
  ELSE [result |-> "Other", killed |-> FALSE]

\* Handler::stop on a handler with child c: its result, and whether the
\* process was killed. self.child.take() leaves child None in every case.
HandlerStop(c, firstOk) ==
  IF c = 0 THEN [result |-> "Ok", killed |-> FALSE]
  ELSE IF KillLoop(1, firstOk).ok THEN [result |-> "Ok", killed |-> TRUE]
  ELSE [result |-> "Other", killed |-> FALSE]

\* The process table after Handler::stop on child c.
ProcsAfterStop(c, firstOk) ==
  IF HandlerStop(c, firstOk).killed
  THEN [procs EXCEPT ![c].alive = FALSE]
  ELSE procs

\* The attempt at which a spawn, kill or write first succeeds: at once, at the
\* last attempt, or never.
FirstOks == {1, 10, 11}

\* The write of write_to_stream that first succeeds: the first, the one at the
\* last retry, or a later one.
FirstWrites == {1, 6, 7}

\* ------------------------------------------------------------ Notifier
\* Notifier::send_message: write attempt n of `for _ in 0..10`, when the first
\* write that succeeds is attempt firstOk and the first reconnect whose 10
\* connects all fail is the one after write attempt firstBad. First, a loop
\* that gives up one write early.
RECURSIVE SendLoopOneShort(_, _, _)
SendLoopOneShort(n, firstOk, firstBad) ==
  IF n > SEND_ATTEMPTS - 1 THEN [ok |-> FALSE, writes |-> SEND_ATTEMPTS - 1]
  ELSE IF n = firstOk THEN [ok |-> TRUE, writes |-> n]
  ELSE IF n = firstBad THEN [ok |-> FALSE, writes |-> n]
  ELSE SendLoopOneShort(n + 1, firstOk, firstBad)

RECURSIVE SendLoop(_, _, _)
SendLoop(n, firstOk, firstBad) ==
  IF n > SEND_ATTEMPTS THEN [ok |-> FALSE, writes |-> SEND_ATTEMPTS]
  ELSE IF n = firstOk THEN [ok |-> TRUE, writes |-> n]
  ELSE IF n = firstBad THEN [ok |-> FALSE, writes |-> n]
  ELSE SendLoop(n + 1, firstOk, firstBad)

send_message(firstOk, firstBad) == SendLoop(1, firstOk, firstBad).ok

FirstBads == {1, 11}

\* ------------------------------------------------------------------- Init
\* main() up to the first listener.incoming(): the logger is updated, the
\* notifier connected, the hourly thread spawned, `process` None.
Init ==
  /\ dpc = "accept"
  /\ process = 0
  /\ KILL_RUNNER = FALSE
  /\ command = NoCommand
  /\ tracked = FALSE
  /\ handle = 0
  /\ wmsg = NoMsg
  /\ attempt = 0
  /\ replies = << >>
  /\ nrunners = 0
  /\ rpc = [t \in Threads |-> "unborn"]
  /\ previous_command = [t \in Threads |-> OFF]
  /\ child = [t \in Threads |-> 0]
  /\ files = [t \in Threads |-> 0]
  /\ runStarts = [t \in Threads |-> 0]
  /\ runConn = [t \in Threads |-> 0]
  /\ emitted = [t \in Threads |-> NoStatus]
  /\ runOns = [t \in Threads |-> 0]
  /\ procs = << >>
  /\ hpc = "sleep"
  /\ loggerOwner = Free
  /\ notifierOwner = NoThread
  /\ loggerPoisoned = FALSE
  /\ notifierPoisoned = FALSE
  /\ call = NoCall

\* ------------------------------------------------------------ accept loop
\* `for stream in listener.incoming()`: the next connection is accepted once
\* the previous command has been processed to its end.
Accept ==
  /\ dpc = "accept"
  /\ wmsg = NoMsg
  /\ dpc' = "read"
  /\ command' = NoCommand
  /\ replies' = << >>
  /\ UNCHANGED << process, KILL_RUNNER, tracked, handle, wmsg, attempt >>
  /\ UNCHANGED << runnerVars, hpc, lockVars >>
  /\ UNCHANGED call

\* write_to_stream(&mut stream, msg, &logger) is begun: DaemonWrite runs it.
Reply(msg, next) ==
  /\ wmsg' = msg
  /\ attempt' = 0
  /\ dpc' = next

\* A `status` that takes the handle out of `process`, as `stop` does.
StatusTakingHandle ==
  /\ Reply(IF process # 0 THEN "Daemon is running" ELSE "Daemon is not running",
           "accept")
  /\ process' = 0
  /\ UNCHANGED << KILL_RUNNER, handle >>
  /\ UNCHANGED runnerVars

\* "status"
Status ==
  /\ Reply(IF process # 0 THEN "Daemon is running" ELSE "Daemon is not running",
           "accept")
  /\ UNCHANGED << process, KILL_RUNNER, handle >>
  /\ UNCHANGED runnerVars

\* A `start` that spawns whether or not a handle is tracked.
StartSpawnsAlways == TRUE

\* `match &process`: the None arm, which spawns.
StartSpawns == process = 0

\* "start"
Start ==
  IF ~StartSpawns
  THEN /\ Reply("Daemon is already running", "accept")
       /\ UNCHANGED << process, KILL_RUNNER, handle >>
       /\ UNCHANGED runnerVars
  ELSE /\ nrunners < MaxRunners
       /\ nrunners' = nrunners + 1
       /\ process' = nrunners + 1
       /\ rpc' = [rpc EXCEPT ![nrunners + 1] = "open"]
       /\ dpc' = "start_log"
       /\ UNCHANGED << KILL_RUNNER, handle, wmsg, attempt >>
       /\ UNCHANGED << previous_command, child, files, runStarts, runConn, runOns, emitted,
                       procs >>

\* "stop": the flag is stored before `process` is looked at.
Stop ==
  /\ KILL_RUNNER' = TRUE
  /\ IF process # 0
     THEN /\ handle' = process
          /\ process' = 0
          /\ Reply("Killing VPN if needed...", "join")
     ELSE /\ dpc' = "accept"
          /\ UNCHANGED << process, handle, wmsg, attempt >>
  /\ UNCHANGED runnerVars

\* An arm for other commands that drops the connection without a reply.
InvalidUnanswered ==
  /\ dpc' = "accept"
  /\ UNCHANGED << process, KILL_RUNNER, handle, wmsg, attempt >>
  /\ UNCHANGED runnerVars

\* any other command
Invalid ==
  /\ Reply("Received invalid command!", "accept")
  /\ UNCHANGED << process, KILL_RUNNER, handle >>
  /\ UNCHANGED runnerVars

\* stream.read returned Ok(bytes_read): the command is trimmed and matched.
ReadCommand(sent) ==
  /\ dpc = "read"
  /\ command' = Trim(ReadInto(BUFFER_LEN, sent))
  /\ tracked' = (process # 0)
  /\ CASE command' = CmdStatus -> Status
       [] command' = CmdStart -> Start
       [] command' = CmdStop -> Stop
       [] OTHER -> Invalid
  /\ UNCHANGED << replies, hpc, lockVars >>
  /\ UNCHANGED call

\* stream.read returned Err.
ReadError ==
  /\ dpc = "read"
  /\ Reply("Error reading from socket", "rderr_log")
  /\ tracked' = (process # 0)
  /\ UNCHANGED << process, KILL_RUNNER, command, handle, replies >>
  /\ UNCHANGED << runnerVars, hpc, lockVars >>
  /\ UNCHANGED call

\* The main thread panics, which ends the daemon process; a panic under a
\* held logger guard poisons the mutex on the way.
MainPanics(poison) ==
  /\ dpc' = "panicked"
  /\ loggerPoisoned' = (loggerPoisoned \/ poison)
  /\ UNCHANGED << process, KILL_RUNNER, command, tracked, handle, wmsg, attempt,
                  replies >>
  /\ UNCHANGED << runnerVars, hpc, loggerOwner, notifierOwner, notifierPoisoned >>

\* write_to_stream's `while attempt <= 5` from `attempt` = n on, when the first
\* write that succeeds is the firstOk-th from there: it breaks on that write,
\* or arrives at the last retry with every write before it failed.
RECURSIVE WriteLoop(_, _)
WriteLoop(n, firstOk) ==
  IF firstOk = 1 THEN [written |-> TRUE, attempt |-> n]
  ELSE IF n < WRITE_RETRIES THEN WriteLoop(n + 1, firstOk - 1)
  ELSE [written |-> FALSE, attempt |-> n]

\* write_to_stream: the retries up to the last one are taken at once; at the
\* last one (`attempt` = 5) a failed write is logged (logOk) and the loop goes
\* on with `attempt` unchanged.
DaemonWrite(firstOk, logOk) ==
  /\ DaemonUp
  /\ wmsg # NoMsg
  /\ LET r == WriteLoop(attempt, firstOk) IN
     IF r.written
     THEN /\ replies' = Append(replies, wmsg)
          /\ wmsg' = NoMsg
          /\ attempt' = 0
          /\ UNCHANGED << dpc, process, KILL_RUNNER, command, tracked, handle >>
          /\ UNCHANGED << runnerVars, hpc, lockVars >>
     ELSE IF attempt < WRITE_RETRIES
     THEN /\ attempt' = r.attempt
          /\ UNCHANGED << dpc, process, KILL_RUNNER, command, tracked, handle,
                          wmsg, replies >>
          /\ UNCHANGED << runnerVars, hpc, lockVars >>
     ELSE /\ LoggerFree
          /\ IF loggerPoisoned THEN MainPanics(FALSE)
             ELSE IF logOk THEN UNCHANGED vars
             ELSE MainPanics(TRUE)
  /\ UNCHANGED call

\* logger.lock().unwrap().log(..) in the accept loop: `if let Err(_) = .. {
\* continue }`. The lock blocks while the hourly task holds it.
MainLog(at, okNext, okMsg) ==
  /\ dpc = at
  /\ wmsg = NoMsg
  /\ LoggerFree
  /\ IF loggerPoisoned THEN MainPanics(FALSE)
     ELSE \E logOk \in BOOLEAN :
            /\ IF logOk /\ okMsg # NoMsg
               THEN Reply(okMsg, okNext)
               ELSE /\ dpc' = okNext
                    /\ UNCHANGED << wmsg, attempt >>
            /\ UNCHANGED << process, KILL_RUNNER, command, tracked, handle,
                            replies >>
            /\ UNCHANGED << runnerVars, hpc, lockVars >>
  /\ UNCHANGED call

\* "start", after the spawn: log "Daemon started", then reply it.
StartLog == MainLog("start_log", "accept", "Daemon started")

\* A join that does not wait for the thread.
JoinReturnsAtOnce(t) == TRUE

\* handle.join() returns once the thread has returned or unwound.
JoinReturns(t) == ~RunnerAlive(t)

\* "stop", after the first reply: join, then "Stopped listening to Arduino...".
Join ==
  /\ dpc = "join"
  /\ wmsg = NoMsg
  /\ JoinReturns(handle)
  /\ Reply("Stopped listening to Arduino...",
           IF rpc[handle] = "panicked" THEN "stop_err" ELSE "stop_log")
  /\ UNCHANGED << process, KILL_RUNNER, command, tracked, handle, replies >>
  /\ UNCHANGED << runnerVars, hpc, lockVars >>
  /\ UNCHANGED call

\* "stop", `if let Err(e) = result`: the third reply.
StopErr ==
  /\ dpc = "stop_err"
  /\ wmsg = NoMsg
  /\ Reply("Process threw error when terminating...", "stop_log")
  /\ UNCHANGED << process, KILL_RUNNER, command, tracked, handle, replies >>
  /\ UNCHANGED << runnerVars, hpc, lockVars >>
  /\ UNCHANGED call

\* "stop", the end: stream.flush() and the log of "Stopped listening".
StopLog == MainLog("stop_log", "accept", NoMsg)

\* The read error is logged after it was written to the stream.
ReadErrorLog == MainLog("rderr_log", "accept", NoMsg)

\* ------------------------------------------------------------ Runner thread
\* The thread's closure is left: runner()'s locals (the Handler with its child
\* handle and file list, previous_command) are dropped. Dropping a Child does
\* not kill the process.
Dropped(f, t) == [f EXCEPT ![t] = 0]

\* The closure ends at pc `how`: "done" after its last statement, "panicked"
\* by unwinding.
Leave(t, how) ==
  /\ rpc' = [rpc EXCEPT ![t] = how]
  /\ previous_command' = Dropped(previous_command, t)
  /\ child' = Dropped(child, t)
  /\ files' = Dropped(files, t)
  /\ runStarts' = Dropped(runStarts, t)
  /\ runConn' = Dropped(runConn, t)
  /\ emitted' = [emitted EXCEPT ![t] = NoStatus]
  /\ runOns' = Dropped(runOns, t)

\* settings.open()? and Handler::new()?: either may fail; File::init collects
\* the profile files found: none, or the author's tree of them.
RunnerOpen(t) ==
  /\ DaemonUp
  /\ rpc[t] = "open"
  /\ \/ /\ rpc' = [rpc EXCEPT ![t] = "err"]
        /\ UNCHANGED files
     \/ \E n \in {0, PROFILE_FILES} :
          /\ rpc' = [rpc EXCEPT ![t] = "loop"]
          /\ files' = [files EXCEPT ![t] = n]
  /\ UNCHANGED << nrunners, previous_command, child, runStarts, runConn, runOns, emitted,
                  procs >>
  /\ UNCHANGED << daemonVars, hpc, lockVars >>
  /\ UNCHANGED call

\* A cancellation that reports the disconnection as the "Turn Off" arm does.
AfterCancelNotifying(result) == IF result = "Ok" THEN "off_notify" ELSE "err"

\* `return match handler.stop() { Ok(_) => Ok(()), Err(e) => Err(Box::new(e)) }`
AfterCancel(result) == IF result = "Ok" THEN "reset" ELSE "err"

\* A check of the flag that cancels only a Runner whose last acted command is
\* Turn On.
ObservesCancelWhenConnected(t) == KILL_RUNNER /\ previous_command[t] = ON

\* `if KILL_RUNNER.load(Ordering::Relaxed)` at the top of `loop`
ObservesCancel(t) == KILL_RUNNER

\* The top of `loop`: KILL_RUNNER.load(); when set, handler.stop() and return.
RunnerCheck(t) ==
  /\ DaemonUp
  /\ rpc[t] = "loop"
  /\ IF ObservesCancel(t)
     THEN \E k \in FirstOks :
            /\ procs' = ProcsAfterStop(child[t], k)
            /\ child' = [child EXCEPT ![t] = 0]
            /\ rpc' = [rpc EXCEPT ![t] = AfterCancel(HandlerStop(child[t], k).result)]
     ELSE /\ rpc' = [rpc EXCEPT ![t] = "read"]
          /\ UNCHANGED << child, procs >>
  /\ UNCHANGED << nrunners, previous_command, files, runStarts, runConn, runOns,
                  emitted >>
  /\ UNCHANGED << daemonVars, hpc, lockVars >>
  /\ UNCHANGED call

\* A "Turn On" arm without the comparison to the last acted command.
ActOnTurnOnAlways(t) == TRUE

\* `if previous_command != 255`
ActOnTurnOn(t) == previous_command[t] # ON

\* A "Turn Off" arm without the comparison to the last acted command.
ActOnTurnOffAlways(t) == TRUE

\* `if previous_command != 0`
ActOnTurnOff(t) == previous_command[t] # OFF

\* A Supervisor call whose error is dropped instead of returned.
AfterCallIgnoringErr(result, next) == next

\* The `?` on handler.start() and handler.stop() in the two arms: an Err
\* leaves runner() with it, an Ok goes on to the settle delay and the status.
AfterCall(result, next) == IF result = "Ok" THEN next ELSE "err"

\* "Turn On": previous_command = 255; handler.start()?; then the settle delay.
\* A panic inside handler.start() unwinds the closure and drops the locals.
TurnOn(t) ==
  /\ runOns[t] < MaxRun
  /\ IF ActOnTurnOn(t)
     THEN \E k \in FirstOks :
            LET r == HandlerStart(child[t], files[t], k) IN
            /\ r = "Ok" => Len(procs) < MaxProcs
            /\ IF r = "panic"
               THEN /\ Leave(t, "panicked")
                    /\ UNCHANGED procs
               ELSE /\ runOns' = [runOns EXCEPT ![t] = @ + 1]
                    /\ runStarts' = [runStarts EXCEPT ![t] = @ + 1]
                    /\ previous_command' = [previous_command EXCEPT ![t] = ON]
                    /\ rpc' = [rpc EXCEPT ![t] = AfterCall(r, "on_notify")]
                    /\ procs' = IF r = "Ok"
                                THEN Append(procs, [owner |-> t, alive |-> TRUE])
                                ELSE procs
                    /\ child' = IF r = "Ok"
                                THEN [child EXCEPT ![t] = Len(procs) + 1]
                                ELSE child
                    /\ UNCHANGED << files, runConn, emitted >>
     ELSE /\ runOns' = [runOns EXCEPT ![t] = @ + 1]
          /\ rpc' = [rpc EXCEPT ![t] = "loop"]
          /\ UNCHANGED << previous_command, child, files, runStarts, runConn,
                          emitted, procs >>

\* "Turn Off": previous_command = 0; handler.stop()?; then the settle delay.
TurnOff(t) ==
  IF ActOnTurnOff(t)
  THEN \E k \in FirstOks :
         /\ previous_command' = [previous_command EXCEPT ![t] = OFF]
         /\ runStarts' = [runStarts EXCEPT ![t] = 0]
         /\ runConn' = [runConn EXCEPT ![t] = 0]
         /\ UNCHANGED emitted
         /\ runOns' = [runOns EXCEPT ![t] = 0]
         /\ procs' = ProcsAfterStop(child[t], k)
         /\ child' = [child EXCEPT ![t] = 0]
         /\ rpc' = [rpc EXCEPT ![t] =
                      AfterCall(HandlerStop(child[t], k).result, "off_notify")]
         /\ UNCHANGED files
  ELSE /\ rpc' = [rpc EXCEPT ![t] = "loop"]
       /\ UNCHANGED << previous_command, child, files, runStarts, runConn, runOns, emitted,
                       procs >>

\* port.read returned Ok(bytes_read): the message is trimmed and matched.
RunnerRead(t, bytes) ==
  /\ DaemonUp
  /\ rpc[t] = "read"
  /\ LET buffer == ReadInto(SERIAL_BUFFER_LEN, bytes)
         message == Trim(buffer)
     IN  IF Len(buffer) > 0 /\ message = MsgTurnOn THEN TurnOn(t)
         ELSE IF Len(buffer) > 0 /\ message = MsgTurnOff THEN TurnOff(t)
         ELSE /\ rpc' = [rpc EXCEPT ![t] = "loop"]
              /\ UNCHANGED << previous_command, child, files, runStarts,
                              runConn, runOns, emitted, procs >>
  /\ UNCHANGED nrunners
  /\ UNCHANGED << daemonVars, hpc, lockVars >>
  /\ UNCHANGED call

\* port.read returned Err (the 10 s timeout included): runner returns it.
RunnerReadError(t) ==
  /\ DaemonUp
  /\ rpc[t] = "read"
  /\ rpc' = [rpc EXCEPT ![t] = "err"]
  /\ UNCHANGED << nrunners, previous_command, child, files, runStarts, runConn, emitted,
                  runOns, procs >>
  /\ UNCHANGED << daemonVars, hpc, lockVars >>
  /\ UNCHANGED call

\* notifier.lock().unwrap() and send_message(..)?: the guard is kept on Ok and
\* dropped by the early return on Err.
RunnerNotify(t) ==
  /\ DaemonUp
  /\ rpc[t] \in {"on_notify", "off_notify"}
  /\ notifierOwner = NoThread
  /\ IF notifierPoisoned
     THEN /\ Leave(t, "panicked")
          /\ UNCHANGED notifierOwner
     ELSE \E w \in FirstOks, b \in FirstBads :
            IF send_message(w, b)
            THEN /\ rpc' = [rpc EXCEPT ![t] =
                              IF rpc[t] = "on_notify" THEN "on_log" ELSE "off_log"]
                 /\ runConn' = [runConn EXCEPT ![t] =
                                  IF rpc[t] = "on_notify" THEN @ + 1 ELSE @]
                 /\ emitted' = [emitted EXCEPT ![t] =
                                  IF rpc[t] = "on_notify" THEN "STATUS Connected"
                                  ELSE "STATUS Disconnected"]
                 /\ notifierOwner' = t
                 /\ UNCHANGED << previous_command, child, files, runStarts,
                                 runOns >>
            ELSE /\ rpc' = [rpc EXCEPT ![t] = "err"]
                 /\ UNCHANGED << previous_command, child, files, runStarts,
                                 runConn, runOns, emitted, notifierOwner >>
  /\ UNCHANGED << nrunners, procs >>
  /\ UNCHANGED << daemonVars, hpc, loggerOwner, loggerPoisoned, notifierPoisoned >>
  /\ UNCHANGED call

\* logger.lock().unwrap().log(&msg) under the notifier guard; on Ok and on Err
\* the block is left for the top of the loop. A poisoned logger unwinds the
\* thread through the notifier guard.
RunnerLog(t) ==
  /\ DaemonUp
  /\ rpc[t] \in {"on_log", "off_log"}
  /\ LoggerFree
  /\ notifierOwner' = NoThread
  /\ IF loggerPoisoned
     THEN /\ Leave(t, "panicked")
          /\ notifierPoisoned' = TRUE
     ELSE /\ rpc' = [rpc EXCEPT ![t] = "loop"]
          /\ UNCHANGED << previous_command, child, files, runStarts, runConn,
                          runOns, emitted, notifierPoisoned >>
  /\ UNCHANGED << nrunners, procs >>
  /\ UNCHANGED << daemonVars, hpc, loggerOwner, loggerPoisoned >>
  /\ UNCHANGED call

\* The closure's Err arm: closure_logger.lock().unwrap().log(&msg).unwrap(),
\* then panic!. A failed log unwinds under the logger guard and poisons it.
RunnerErr(t) ==
  /\ DaemonUp
  /\ rpc[t] = "err"
  /\ LoggerFree
  /\ Leave(t, "panicked")
  /\ \E logOk \in BOOLEAN :
       loggerPoisoned' = (loggerPoisoned \/ ~logOk)
  /\ UNCHANGED << nrunners, procs >>
  /\ UNCHANGED << daemonVars, hpc, loggerOwner, notifierOwner, notifierPoisoned >>
  /\ UNCHANGED call

\* The closure's last statement, after runner returned Ok:
\* KILL_RUNNER.store(false).
RunnerReset(t) ==
  /\ DaemonUp
  /\ rpc[t] = "reset"
  /\ KILL_RUNNER' = FALSE
  /\ Leave(t, "done")
  /\ UNCHANGED << nrunners, procs >>
  /\ UNCHANGED << dpc, process, command, tracked, handle, wmsg, attempt, replies >>
  /\ UNCHANGED << hpc, lockVars >>
  /\ UNCHANGED call

Runner(t) ==
  \/ RunnerOpen(t)
  \/ RunnerCheck(t)
  \/ \E bytes \in SerialBytes : RunnerRead(t, bytes)
  \/ RunnerReadError(t)
  \/ RunnerNotify(t)
  \/ RunnerLog(t)
  \/ RunnerErr(t)
  \/ RunnerReset(t)

\* ------------------------------------------------------------- hourly task
\* check_for_updates after its sleep: logger.lock().unwrap(), then update()
\* up to the removal of the old file: rotate_needed answers Ok(false) and the
\* guard is dropped ("fresh"), or update returns the Err of rotate_needed or of
\* remove_file ("error"), or the file is gone and its header is to be written
\* ("removed").
HourlyWake ==
  /\ DaemonUp
  /\ hpc = "sleep"
  /\ LoggerFree
  /\ IF loggerPoisoned
     THEN /\ hpc' = "panicked"
          /\ UNCHANGED loggerOwner
     ELSE \E outcome \in {"fresh", "error", "removed"} :
            IF outcome = "fresh" THEN UNCHANGED << hpc, loggerOwner >>
            ELSE /\ hpc' = IF outcome = "error" THEN "failed" ELSE "rotating"
                 /\ loggerOwner' = "hourly"
  /\ UNCHANGED << daemonVars, runnerVars, notifierOwner, loggerPoisoned,
                  notifierPoisoned >>
  /\ UNCHANGED call

\* rotate_logs' fs::write of the header, under the logger guard: update
\* returns Ok and the guard is dropped, or it returns the Err of the write.
HourlyRewrite ==
  /\ DaemonUp
  /\ hpc = "rotating"
  /\ \E writeOk \in BOOLEAN :
       IF writeOk
       THEN /\ hpc' = "sleep"
            /\ loggerOwner' = Free
       ELSE /\ hpc' = "failed"
            /\ UNCHANGED loggerOwner
  /\ UNCHANGED << daemonVars, runnerVars, notifierOwner, loggerPoisoned,
                  notifierPoisoned >>
  /\ UNCHANGED call

\* The Err arm: logger.log(&msg) under the same guard; `continue` when it
\* fails, which drops the guard, else on to the notifier with the guard kept.
HourlyLogFailure ==
  /\ DaemonUp
  /\ hpc = "failed"
  /\ \E logOk \in BOOLEAN :
       IF logOk
       THEN /\ hpc' = "notify"
            /\ UNCHANGED loggerOwner
       ELSE /\ hpc' = "sleep"
            /\ loggerOwner' = Free
  /\ UNCHANGED << daemonVars, runnerVars, notifierOwner, loggerPoisoned,
                  notifierPoisoned >>
  /\ UNCHANGED call

\* notifier.lock().unwrap() under the logger guard, send_message("FAIL - ..")
\* with its result dropped, then both guards are released. A poisoned notifier
\* unwinds the thread through the logger guard.
HourlyNotify ==
  /\ DaemonUp
  /\ hpc = "notify"
  /\ notifierOwner = NoThread
  /\ loggerOwner' = Free
  /\ IF notifierPoisoned
     THEN /\ hpc' = "panicked"
          /\ loggerPoisoned' = TRUE
     ELSE /\ hpc' = "sleep"
          /\ UNCHANGED loggerPoisoned
  /\ UNCHANGED << daemonVars, runnerVars, notifierOwner, notifierPoisoned >>
  /\ UNCHANGED call

\* --------------------------------------------------------- specification
Daemon ==
  \/ Accept
  \/ \E sent \in ClientBytes : ReadCommand(sent)
  \/ ReadError
  \/ \E w \in FirstWrites, logOk \in BOOLEAN : DaemonWrite(w, logOk)
  \/ StartLog
  \/ Join
  \/ StopErr
  \/ StopLog
  \/ ReadErrorLog

Hourly == HourlyWake \/ HourlyRewrite \/ HourlyLogFailure \/ HourlyNotify

Next ==
  \/ Daemon
  \/ \E t \in Threads : Runner(t)
  \/ Hourly

Spec == Init /\ [][Next]_vars

\* Scheduling: a thread that can take a step takes one, and a thread waiting
\* for a mutex gets it if the mutex is free again and again (the hourly task
\* sleeps an hour between two uses of the logger); a client stream that can
\* take a write is not refused forever. Accepting a connection and reading
\* its command wait for the client and are not forced.
FairSpec ==
  /\ Spec
  /\ SF_vars(\E w \in FirstWrites, logOk \in BOOLEAN : DaemonWrite(w, logOk))
  /\ SF_vars(StartLog \/ Join \/ StopErr \/ StopLog \/ ReadErrorLog)
  /\ \A t \in Threads : SF_vars(Runner(t))
  /\ WF_vars(Hourly)

\* ------------------------------------------------- the Handler by itself
\* The Handler used as handler.rs's tests use it: Handler::new(), then any
\* sequence of start() and stop(). It is the Handler of the first thread
\* slot, with the process table of the model.
TheHandler == CHOOSE t \in Threads : \A u \in Threads : t <= u

\* The attempt at which a spawn or a kill first succeeds: any of the 10, or
\* none of them.
Attempts == 1..(SPAWN_ATTEMPTS + 1)

\* The spawn attempts Handler::start makes: none when a child exists, none
\* when get_random_file_path panics before the first spawn.
StartAttempts(c, nfiles, firstOk) ==
  IF c # 0 \/ nfiles = 0 THEN 0 ELSE SpawnLoop(1, firstOk).attempts

\* The kill attempts Handler::stop makes: none in the `None => Ok(())` arm.
StopAttempts(c, firstOk) ==
  IF c = 0 THEN 0 ELSE KillLoop(1, firstOk).attempts

\* The record of a call on the Handler: the state it was made in and the
\* call before it.
HandlerCall(op, firstOk, result, attempts) ==
  [ op |-> op, firstOk |-> firstOk, result |-> result, attempts |-> attempts,
    childBefore |-> child[TheHandler], procsBefore |-> procs,
    prevOp |-> call.op, prevResult |-> call.result ]

\* What a call on the Handler leaves alone.
otherThanHandler ==
  << daemonVars, nrunners, rpc, previous_command, runStarts, runConn, runOns, emitted,
     hpc, lockVars >>

\* Handler::new(): File::init()? has collected the profile files.
HandlerNew ==
  /\ call = NoCall
  /\ \E n \in {0, PROFILE_FILES} :
       files' = [files EXCEPT ![TheHandler] = n]
  /\ call' = [op |-> "new", result |-> "Ok"]
  /\ UNCHANGED << child, procs >>
  /\ UNCHANGED otherThanHandler

\* A panic of the test thread ends the use of the Handler.
HandlerUsable == call.op # "none" /\ call.result # "panic"

\* handler.start()
HandlerStartCall(firstOk) ==
  LET c == child[TheHandler]
      r == HandlerStart(c, files[TheHandler], firstOk)
  IN  /\ HandlerUsable
      /\ r = "Ok" => Len(procs) < MaxProcs
      /\ procs' = IF r = "Ok"
                  THEN Append(procs, [owner |-> TheHandler, alive |-> TRUE])
                  ELSE procs
      /\ child' = IF r = "Ok"
                  THEN [child EXCEPT ![TheHandler] = Len(procs) + 1]
                  ELSE child
      /\ call' = HandlerCall("start", firstOk, r,
                             StartAttempts(c, files[TheHandler], firstOk))
      /\ UNCHANGED files
      /\ UNCHANGED otherThanHandler

\* handler.stop()
HandlerStopCall(firstOk) ==
  LET c == child[TheHandler] IN
  /\ HandlerUsable
  /\ procs' = ProcsAfterStop(c, firstOk)
  /\ child' = [child EXCEPT ![TheHandler] = 0]
  /\ call' = HandlerCall("stop", firstOk, HandlerStop(c, firstOk).result,
                         StopAttempts(c, firstOk))
  /\ UNCHANGED files
  /\ UNCHANGED otherThanHandler

HandlerNext ==
  \/ HandlerNew
  \/ \E k \in Attempts : HandlerStartCall(k)
  \/ \E k \in Attempts : HandlerStopCall(k)

HandlerSpec == Init /\ [][HandlerNext]_vars

\* ------------------------------------------------ the Notifier by itself
\* A connect loop that tries once more than `for _ in 0..10`.
RECURSIVE ConnectLoopOneMore(_, _)
ConnectLoopOneMore(n, firstOk) ==
  IF n > CONNECT_ATTEMPTS + 1 THEN [ok |-> FALSE, attempts |-> CONNECT_ATTEMPTS + 1]
  ELSE IF n = firstOk THEN [ok |-> TRUE, attempts |-> n]
  ELSE ConnectLoopOneMore(n + 1, firstOk)

\* Notifier::connect: connect attempt n of `for _ in 0..10`, when the first
\* connect that succeeds is attempt firstOk.
RECURSIVE ConnectLoop(_, _)
ConnectLoop(n, firstOk) ==
  IF n > CONNECT_ATTEMPTS THEN [ok |-> FALSE, attempts |-> CONNECT_ATTEMPTS]
  ELSE IF n = firstOk THEN [ok |-> TRUE, attempts |-> n]
  ELSE ConnectLoop(n + 1, firstOk)

\* The value send_message returns: Ok from the write that succeeded, the
\* NotFound of connect through the `?`, or BrokenPipe after the loop.
SendResult(firstOk, firstBad) ==
  LET r == SendLoop(1, firstOk, firstBad) IN
  IF r.ok THEN "Ok"
  ELSE IF r.writes = firstBad THEN "NotFound"
  ELSE "BrokenPipe"

\* The writes of send_message that failed: each is followed by a reconnect.
SendFailedWrites(firstOk, firstBad) ==
  LET r == SendLoop(1, firstOk, firstBad) IN
  IF r.ok THEN r.writes - 1 ELSE r.writes

\* The connect attempts of each reconnect send_message makes, in order, when
\* a reconnect that succeeds does so at its attempt connOk.
SendConnects(firstOk, firstBad, connOk) ==
  [ i \in 1..SendFailedWrites(firstOk, firstBad) |->
      ConnectLoop(1, IF i = firstBad THEN CONNECT_ATTEMPTS + 1 ELSE connOk).attempts ]

\* The connect attempt at which a reconnect that succeeds does so.
ConnOks == {1, CONNECT_ATTEMPTS}

\* What a call on the Notifier leaves alone.
otherThanNotifier == << daemonVars, runnerVars, hpc, lockVars >>

\* Notifier::new(): connect()?. create_notifier calls it again after an Err.
NotifierNew(firstOk) ==
  /\ call.op = "none" \/ (call.op = "new" /\ call.result # "Ok")
  /\ call' = [ op |-> "new",
               result |-> IF ConnectLoop(1, firstOk).ok THEN "Ok" ELSE "NotFound",
               connects |-> << ConnectLoop(1, firstOk).attempts >> ]
  /\ UNCHANGED otherThanNotifier

\* notifier.send_message(..) on a Notifier that was constructed.
NotifierSend(firstOk, firstBad, connOk) ==
  /\ call.op = "send_message" \/ (call.op = "new" /\ call.result = "Ok")
  /\ call' = [ op |-> "send_message",
               firstOk |-> firstOk, firstBad |-> firstBad,
               result |-> SendResult(firstOk, firstBad),
               writes |-> SendLoop(1, firstOk, firstBad).writes,
               connects |-> SendConnects(firstOk, firstBad, connOk) ]
  /\ UNCHANGED otherThanNotifier

NotifierNext ==
  \/ \E k \in Attempts : NotifierNew(k)
  \/ \E w \in Attempts, b \in Attempts, c \in ConnOks : NotifierSend(w, b, c)

NotifierSpec == Init /\ [][NotifierNext]_vars

\* -------------------------------------------------- the Logger by itself
\* Instants are ticks of the clock since some midnight; the timestamp of a
\* header is a number of whole seconds since then.
\* NaiveDateTime::parse_from_str(.., "%Y-%m-%d %H:%M:%S"): the instant at the
\* start of the second the header names.
ParseTimestamp(secs) == secs * TicksPerSecond

\* Duration::hours(24)
RotateAfter == ROTATE_HOURS * SECONDS_PER_HOUR * TicksPerSecond

\* A comparison that also fires at exactly 24 hours.
ElapsedAtLeast(now, timestamp) == now - timestamp >= RotateAfter

\* `now.signed_duration_since(timestamp) > Duration::hours(24)`
Elapsed(now, timestamp) == now - timestamp > RotateAfter

\* Logger::rotate_needed on the log file `file` at the instant `now`.
rotate_needed(file, now) ==
  IF file.kind = "missing" THEN "true"
  ELSE IF file.kind = "unreadable" THEN "IOError"
  ELSE IF file.kind = "empty" THEN "IOError"
  ELSE IF file.kind = "noprefix" THEN "MissingPrefixError"
  ELSE IF file.kind = "badtime" THEN "ParseError"
  ELSE IF Elapsed(now, ParseTimestamp(file.secs)) THEN "true"
  ELSE "false"

\* The seconds a header may name.
HeaderSeconds ==
  { 0, 1, 59, SECONDS_PER_HOUR, ROTATE_HOURS * SECONDS_PER_HOUR - 1,
    ROTATE_HOURS * SECONDS_PER_HOUR, ROTATE_HOURS * SECONDS_PER_HOUR + 1,
    2 * ROTATE_HOURS * SECONDS_PER_HOUR }

\* now.format("%Y-%m-%d %H:%M:%S"): the second the instant lies in.
FormatTimestamp(now) == now \div TicksPerSecond

\* The lines of a log file. Every line is terminated, as rotate_logs and log
\* write them.
\* "LOG CREATED AT: <timestamp>\n"
HeaderLine(secs) == [t |-> "header", secs |-> secs, msg |-> ""]
\* "[<timestamp>] > <msg>\n"
EntryLine(secs, msg) == [t |-> "entry", secs |-> secs, msg |-> msg]
\* A line without the prefix, and one with the prefix and no valid timestamp.
JunkLine(t) == [t |-> t, secs |-> 0, msg |-> ""]

\* What rotate_needed finds at the log path: no file, a file it cannot open,
\* or a file; of a file, what its first line is.
FileKind(state, lines) ==
  IF state # "file" THEN state
  ELSE IF lines = << >> THEN "empty"
  ELSE IF Head(lines).t = "entry" THEN "noprefix"
  ELSE Head(lines).t

\* The log path: `state` is "missing", "unreadable" or "file".
LogFile(state, lines) ==
  [ kind |-> FileKind(state, lines),
    secs |-> IF FileKind(state, lines) = "header" THEN Head(lines).secs ELSE 0,
    lines |-> lines ]

Missing == LogFile("missing", << >>)

\* The messages logged.
Msgs == {"Daemon started", "STATUS Connected"}

\* The lines a log file may hold after its first.
PriorEntries ==
  { << >>, << EntryLine(1, "Daemon started") >>,
    << EntryLine(1, "Daemon started"), EntryLine(59, "STATUS Connected") >> }

\* The log file a call may find.
LogFiles ==
  { Missing, LogFile("unreadable", << >>), LogFile("file", << >>) }
    \cup { LogFile("file", << JunkLine(t) >> \o es) :
             t \in {"noprefix", "badtime"}, es \in PriorEntries }
    \cup { LogFile("file", << HeaderLine(h) >> \o es) :
             h \in HeaderSeconds, es \in PriorEntries }

\* How long after the header's instant rotate_needed reads the clock: before
\* it (the clock was set back), in the same second, 23h59m later, around 24
\* hours to the tick, 24h+1s and 25h later.
Ages ==
  { 0 - TicksPerSecond, 0, 1, TicksPerSecond - 1,
    RotateAfter - 60 * TicksPerSecond, RotateAfter - 1, RotateAfter,
    RotateAfter + 1, RotateAfter + TicksPerSecond - 1,
    RotateAfter + TicksPerSecond,
    (ROTATE_HOURS + 1) * SECONDS_PER_HOUR * TicksPerSecond }

\* A rotation that writes the header in front of the old lines.
RotatedFileKeepingLines(file, now) ==
  LogFile("file", << HeaderLine(FormatTimestamp(now)) >> \o file.lines)

\* The file rotate_logs writes: fs::write of the header line alone.
RotatedFile(file, now) ==
  LogFile("file", << HeaderLine(FormatTimestamp(now)) >>)

\* Logger::rotate_logs on `file` at `now`: fs::remove_file of a file that is
\* there, then fs::write, which creates the file and writes it; `written` is
\* "yes", "no" (not created) or "created" (created, the write failed).
rotate_logs(file, now, removeOk, written) ==
  IF file.kind # "missing" /\ ~removeOk
  THEN [result |-> "IOError", after |-> file]
  ELSE IF written = "yes" THEN [result |-> "Ok", after |-> RotatedFile(file, now)]
  ELSE IF written = "no" THEN [result |-> "IOError", after |-> Missing]
  ELSE [result |-> "IOError", after |-> LogFile("file", << >>)]

\* An update that rotates on every answer of rotate_needed but "false".
updateRotatingOnError(file, now, removeOk, written) ==
  IF rotate_needed(file, now) = "false"
  THEN [result |-> "Ok", after |-> file]
  ELSE rotate_logs(file, now, removeOk, written)

\* Logger::update: `if self.rotate_needed()? { self.rotate_logs()? }`
update(file, now, removeOk, written) ==
  LET needed == rotate_needed(file, now) IN
  IF needed = "true" THEN rotate_logs(file, now, removeOk, written)
  ELSE IF needed = "false" THEN [result |-> "Ok", after |-> file]
  ELSE [result |-> needed, after |-> file]

\* A log that opens the file with create(true).
logCreating(file, now, msg, written) ==
  IF file.kind = "unreadable" \/ ~written
  THEN [result |-> "IOError", after |-> file]
  ELSE [ result |-> "Ok",
         after |-> LogFile("file", Append(file.lines,
                                EntryLine(FormatTimestamp(now), msg))) ]

\* Logger::log: OpenOptions::new().append(true).open(..)?, then write_all of
\* "[<now>] > <msg>\n"; `written` is whether open and write succeed on a file
\* that is there. A failed write leaves the file as it was.
log(file, now, msg, written) ==
  IF file.kind \in {"missing", "unreadable"} \/ ~written
  THEN [result |-> "IOError", after |-> file]
  ELSE [ result |-> "Ok",
         after |-> LogFile("file", Append(file.lines,
                                EntryLine(FormatTimestamp(now), msg))) ]

\* What a call on the Logger leaves alone.
otherThanLogger == << daemonVars, runnerVars, hpc, lockVars >>

\* The instant of a call made `age` after the instant of the file's header.
Clock(file, age) ==
  IF file.kind = "header" THEN ParseTimestamp(file.secs) + age ELSE age

\* The instants at which log and rotate_logs are called: the start and the
\* end of a second.
Instants == {0, TicksPerSecond - 1}

\* How long after a call the next one is made when it follows immediately.
Delays == {0, 1, TicksPerSecond}

\* The record of a call on the Logger. As in logger.rs's tests, a call is made
\* on a file set up for it, or on the file the call before it left; prevOp is
\* then that call.
LoggerCall(op, file, now, msg, r, prevOp) ==
  [ op |-> op, file |-> file, now |-> now, msg |-> msg,
    result |-> r.result, after |-> r.after, prevOp |-> prevOp ]

\* logger.rotate_needed() as logger.rs's tests call it.
LoggerRotateNeeded(file, age) ==
  LET now == Clock(file, age) IN
  /\ call = NoCall
  /\ call' = LoggerCall("rotate_needed", file, now, "",
                        [result |-> rotate_needed(file, now), after |-> file],
                        "none")
  /\ UNCHANGED otherThanLogger

\* logger.update()
LoggerUpdate(file, age, removeOk, written) ==
  LET now == Clock(file, age) IN
  /\ call = NoCall
  /\ call' = LoggerCall("update", file, now, "",
                        update(file, now, removeOk, written), "none")
  /\ UNCHANGED otherThanLogger

\* logger.rotate_logs()
LoggerRotateLogs(file, age, removeOk, written) ==
  LET now == Clock(file, age) IN
  /\ call = NoCall
  /\ call' = LoggerCall("rotate_logs", file, now, "",
                        rotate_logs(file, now, removeOk, written), "none")
  /\ UNCHANGED otherThanLogger

\* logger.log(&msg)
LoggerLog(file, age, msg, written) ==
  LET now == Clock(file, age) IN
  /\ call = NoCall
  /\ call' = LoggerCall("log", file, now, msg, log(file, now, msg, written),
                        "none")
  /\ UNCHANGED otherThanLogger

\* logger.rotate_needed() right after a rotate_logs that returned Ok, on the
\* file it left.
LoggerRotateNeededNext(delay) ==
  /\ call.op = "rotate_logs"
  /\ call.result = "Ok"
  /\ call' = LoggerCall("rotate_needed", call.after, call.now + delay, "",
                        [ result |-> rotate_needed(call.after, call.now + delay),
                          after |-> call.after ],
                        "rotate_logs")
  /\ UNCHANGED otherThanLogger

LoggerNext ==
  \/ \E file \in LogFiles, age \in Ages : LoggerRotateNeeded(file, age)
  \/ \E file \in LogFiles, age \in Ages, removeOk \in BOOLEAN,
        written \in {"yes", "no", "created"} :
       LoggerUpdate(file, age, removeOk, written)
  \/ \E file \in LogFiles, age \in Instants, removeOk \in BOOLEAN,
        written \in {"yes", "no", "created"} :
       LoggerRotateLogs(file, age, removeOk, written)
  \/ \E file \in LogFiles, age \in Instants, msg \in Msgs, written \in BOOLEAN :
       LoggerLog(file, age, msg, written)
  \/ \E delay \in Delays : LoggerRotateNeededNext(delay)

LoggerSpec == Init /\ [][LoggerNext]_vars

\* ------------------------------------------------------ config::File by itself
\* File::new's two paths.
MainDir == "/home/kwunch/VPN"
Auth == "/home/kwunch/VPN/auth.txt"

\* Path::join, as entry.path() forms it, and path.to_str() of a valid path.
PathJoin(dir, name) == dir \o "/" \o name

\* What read_dir yields: a regular file, a file whose path is not valid UTF-8,
\* a directory with its entries in read_dir's order, a directory that cannot
\* be read.
FileEntry(name) == [name |-> name, kind |-> "file", entries |-> << >>]
RawEntry(name) == [name |-> name, kind |-> "rawfile", entries |-> << >>]
DirEntry(name, es) == [name |-> name, kind |-> "dir", entries |-> es]
LockedDirEntry(name) == [name |-> name, kind |-> "lockeddir", entries |-> << >>]

\* A recurse_dir that skips no entry.
IsCredentialsNever(name) == FALSE

\* `entry.file_name() == "auth.txt"`
IsCredentials(name) == name = "auth.txt"

\* recurse_dir(path) on directory dir with the Vec holding acc: the result and
\* the Vec after it. RecurseEntries is its `for entry in path.read_dir()?`.
RECURSIVE recurse_dir(_, _, _)
RECURSIVE RecurseEntries(_, _, _)
recurse_dir(path, dir, acc) ==
  IF dir.kind = "lockeddir" THEN [result |-> "IOError", files |-> acc]
  ELSE RecurseEntries(path, dir.entries, acc)

RecurseEntries(path, es, acc) ==
  IF es = << >> THEN [result |-> "Ok", files |-> acc]
  ELSE LET entry == Head(es) IN
       IF IsCredentials(entry.name) THEN RecurseEntries(path, Tail(es), acc)
       ELSE IF entry.kind \in {"dir", "lockeddir"}
       THEN LET r == recurse_dir(PathJoin(path, entry.name), entry, acc) IN
            IF r.result = "Ok" THEN RecurseEntries(path, Tail(es), r.files)
            ELSE r
       ELSE IF entry.kind = "rawfile" THEN [result |-> "Other", files |-> acc]
       ELSE RecurseEntries(path, Tail(es), Append(acc, PathJoin(path, entry.name)))

\* File::init on a fresh File: recurse_dir(main_dir)?; Ok(()).
init(tree) == recurse_dir(MainDir, tree, << >>)

\* get_random_file_path with the Vec holding fs: lock_file()?, then
\* random_range(0..len), which panics on an empty range and otherwise draws
\* ridx, and file[ridx]. The panic unwinds under the guard and poisons `files`.
get_random_file_path(fs, poisoned, ridx) ==
  IF poisoned THEN [result |-> "Other", path |-> "", poisoned |-> TRUE]
  ELSE IF Len(fs) = 0 THEN [result |-> "panic", path |-> "", poisoned |-> TRUE]
  ELSE [result |-> "Ok", path |-> fs[ridx + 1], poisoned |-> FALSE]

\* The orders in which read_dir may yield the entries S.
Orders(S) ==
  { es \in [1..Cardinality(S) -> S] :
      \A i, j \in 1..Cardinality(S) : i # j => es[i] # es[j] }

\* The directories under the root: a country's directory with a profile, with
\* a file named auth.txt of its own, with a directory below it, or unreadable.
SubDirs ==
  { DirEntry("us", es) :
      es \in UNION { Orders(S) :
               S \in SUBSET {FileEntry("a.ovpn"), FileEntry("auth.txt")} } }
  \cup { DirEntry("us", << DirEntry("nyc", es) >>) :
           es \in {<< >>, << FileEntry("a.ovpn") >>} }
  \cup { LockedDirEntry("us") }

\* The trees under main_dir: profile files, the credentials file, a file with
\* a name that is no UTF-8 and at most one directory, in every order, and a
\* main_dir that cannot be read.
Trees ==
  { DirEntry(MainDir, es) :
      es \in UNION { Orders(S \cup D) :
               S \in SUBSET {FileEntry("a.ovpn"), FileEntry("b.ovpn"),
                             FileEntry("auth.txt"), RawEntry("c.ovpn")},
               D \in {{}} \cup {{d} : d \in SubDirs} } }
  \cup { LockedDirEntry(MainDir) }

otherThanConfig == << daemonVars, runnerVars, hpc, lockVars >>

\* Handler::new(): File::new() and `config.init()?` on the tree at main_dir;
\* `handler` is what Handler::new returns.
FileInit(tree) ==
  /\ call = NoCall
  /\ call' = [ op |-> "init",
               result |-> init(tree).result,
               handler |-> init(tree).result,
               tree |-> tree,
               files |-> init(tree).files,
               path |-> "",
               poisoned |-> FALSE ]
  /\ UNCHANGED otherThanConfig

\* config.get_random_file_path(), as Handler::start calls it on the Handler
\* that Handler::new returned.
FileGetRandomFilePath ==
  /\ call.op \in {"init", "get_random_file_path"}
  /\ call.handler = "Ok"
  /\ \E ridx \in 0..(IF Len(call.files) = 0 THEN 0 ELSE Len(call.files) - 1) :
       LET r == get_random_file_path(call.files, call.poisoned, ridx) IN
       call' = [call EXCEPT !.op = "get_random_file_path",
                            !.result = r.result,
                            !.path = r.path,
                            !.poisoned = r.poisoned]
  /\ UNCHANGED otherThanConfig

ConfigNext ==
  \/ \E tree \in Trees : FileInit(tree)
  \/ FileGetRandomFilePath

ConfigSpec == Init /\ [][ConfigNext]_vars

\* --------------------------------------------------- write_to_stream by itself
\* The messages main passes to write_to_stream.
ReplyMsgs ==
  { "Daemon is running", "Daemon is not running", "Daemon is already running",
    "Daemon started", "Killing VPN if needed...",
    "Stopped listening to Arduino...", "Process threw error when terminating...",
    "Received invalid command!", "Error reading from socket" }

\* One turn of `while attempt <= 5` with `attempt` = n: the writeln! succeeds
\* and the loop is left; it fails before the last retry and `attempt` is
\* raised after the delay; it fails at the last retry and the failure is
\* logged with `.unwrap()`, `attempt` staying as it is.
WriteTurn(n, writeOk, logOk) ==
  IF writeOk THEN [attempt |-> n, result |-> "returned", logged |-> FALSE]
  ELSE IF n < WRITE_RETRIES
  THEN [attempt |-> n + 1, result |-> "running", logged |-> FALSE]
  ELSE IF logOk THEN [attempt |-> n, result |-> "running", logged |-> TRUE]
  ELSE [attempt |-> n, result |-> "panicked", logged |-> FALSE]

otherThanWrite == << daemonVars, runnerVars, hpc, lockVars >>

\* write_to_stream(&mut stream, message, &logger) is entered: attempt = 0.
WriteToStream(message) ==
  /\ call = NoCall
  /\ call' = [ op |-> "write_to_stream", result |-> "running",
               message |-> message, attempt |-> 0, writes |-> 0, logs |-> 0 ]
  /\ UNCHANGED otherThanWrite

\* The loop's next turn, while its condition holds.
WriteToStreamTurn(writeOk, logOk) ==
  /\ call.op = "write_to_stream"
  /\ call.result = "running"
  /\ call.writes < MaxWrites
  /\ LET r == WriteTurn(call.attempt, writeOk, logOk) IN
     call' = [call EXCEPT !.result = IF call.attempt <= WRITE_RETRIES
                                     THEN r.result ELSE "returned",
                          !.attempt = r.attempt,
                          !.writes = IF call.attempt <= WRITE_RETRIES
                                     THEN @ + 1 ELSE @,
                          !.logs = IF r.logged THEN @ + 1 ELSE @]
  /\ UNCHANGED otherThanWrite

WriteNext ==
  \/ \E message \in ReplyMsgs : WriteToStream(message)
  \/ \E writeOk \in BOOLEAN, logOk \in BOOLEAN : WriteToStreamTurn(writeOk, logOk)

WriteSpec == Init /\ [][WriteNext]_vars

\* ------------------------------------------------------------------ claims
InReplies(m) == \E k \in 1..Len(replies) : replies[k] = m

\* The current command has been processed to its end.
Served == dpc = "accept" /\ wmsg = NoMsg /\ command # NoCommand

\* C1: at most one Runner thread exists at any time, and a `start` read while a
\* handle is tracked replies "Daemon is already running", spawns no thread and
\* leaves the tracked handle unchanged.
C1_AtMostOneRunner ==
  /\ [](Cardinality({ t \in Threads : RunnerAlive(t) }) <= 1)
  /\ [][ (dpc = "read" /\ process # 0 /\ command' = CmdStart)
           => /\ wmsg' = "Daemon is already running"
              /\ nrunners' = nrunners
              /\ rpc' = rpc
              /\ process' = process ]_vars

C1_Witness ==
  /\ command = CmdStart
  /\ tracked
  /\ replies = << "Daemon is already running" >>
  /\ process # 0
  /\ RunnerAlive(process)

\* C2: after a `stop` read while no Runner is tracked, the cancel flag is false
\* and no Runner thread runs.
C2_StopWithoutRunnerIsNoOp ==
  (Served /\ command = CmdStop /\ ~tracked)
    => (~KILL_RUNNER /\ \A t \in Threads : ~RunnerAlive(t))

\* C3: in every reachable state the cancel flag is true only while a Runner
\* thread is still running.
C3_FlagOnlyWhileRunnerRuns ==
  KILL_RUNNER => \E t \in Threads : RunnerAlive(t)

\* C4: between commands, the tracked handle `process` is Some exactly when a
\* Runner thread is still executing.
C4_HandleIffRunnerAlive ==
  (dpc = "accept" /\ wmsg = NoMsg)
    => /\ process # 0 => RunnerAlive(process)
       /\ process = 0 => \A t \in Threads : ~RunnerAlive(t)

\* C5: once a `stop` with a tracked Runner has been served, no VPN client
\* process started by the stopped Runner is alive.
C5_NoVpnProcessAfterStop ==
  (Served /\ command = CmdStop /\ tracked)
    => \A p \in AliveProcs : procs[p].owner # handle

\* C6: at most one VPN client process spawned by the daemon is alive at any
\* time.
C6_AtMostOneVpnProcess == Cardinality(AliveProcs) <= 1

\* C7: while `stop` waits for the tracked Runner the cancel flag stays set and
\* no other command is processed; "Stopped listening to Arduino..." is written,
\* and the next connection accepted, only after that Runner thread has ended.
C7_StopRepliesAfterRunnerEnded ==
  /\ dpc = "join"
       => /\ command = CmdStop
          /\ tracked
          /\ handle # 0
          /\ process = 0
          /\ RunnerAlive(handle) => KILL_RUNNER
          /\ ~InReplies("Stopped listening to Arduino...")
  /\ (wmsg = "Stopped listening to Arduino..."
        \/ InReplies("Stopped listening to Arduino...")
        \/ (command = CmdStop /\ tracked /\ dpc \in {"stop_err", "stop_log", "accept"}))
       => rpc[handle] \in {"done", "panicked"}

C7_Witness ==
  /\ Served
  /\ command = CmdStop
  /\ replies = << "Killing VPN if needed...", "Stopped listening to Arduino..." >>
  /\ rpc[handle] = "done"

\* C8: under fair scheduling, the wait of every `stop` for its tracked Runner
\* eventually ends.
C8_StopEventuallyCompletes == (dpc = "join") ~> (dpc # "join")

\* C9: every command that was read has received at least one reply line by the
\* time the accept loop turns to the next connection.
C9_EveryCommandIsAnswered == Served => Len(replies) >= 1

\* C10: within one Runner, the "Turn On" messages read since the last acted
\* "Turn Off" cause one Handler::start call and one STATUS Connected: the
\* first of them both, the later ones nothing.
C10_RepeatedTurnOnActsOnce ==
  \A t \in Threads :
    /\ runStarts[t] <= 1
    /\ runConn[t] <= 1
    /\ (runOns[t] >= 1 /\ rpc[t] \in {"loop", "read"})
         => (runStarts[t] = 1 /\ runConn[t] = 1 /\ previous_command[t] = ON)
    /\ rpc[t] = "on_notify" => (runOns[t] = 1 /\ runStarts[t] = 1 /\ runConn[t] = 0)
    /\ rpc[t] = "on_log" => (runOns[t] = 1 /\ runStarts[t] = 1 /\ runConn[t] = 1)

C10_Witness ==
  \E t \in Threads :
    /\ runOns[t] = MaxRun
    /\ rpc[t] = "loop"
    /\ runStarts[t] = 1
    /\ runConn[t] = 1

\* C11: a Runner reaches the point where it emits STATUS Connected, and then
\* the point where it logs it, only by a step in which Handler::start returned
\* Ok (the new process is its child), and the points for STATUS Disconnected
\* only by a step in which Handler::stop returned Ok; while it stands at these
\* points the successful call is already behind it, and a status is counted as
\* sent only from the emission point.
C11_StatusOnlyAfterSuccess ==
  /\ [](\A t \in Threads :
         /\ rpc[t] \in {"on_notify", "on_log"}
              => /\ child[t] \in AliveProcs
                 /\ procs[child[t]].owner = t
                 /\ runStarts[t] = 1
         /\ rpc[t] \in {"off_notify", "off_log"}
              => /\ child[t] = 0
                 /\ \A p \in AliveProcs : procs[p].owner # t)
  /\ [][ \A t \in Threads :
           /\ (rpc'[t] = "on_notify" /\ rpc[t] # "on_notify")
                => \E k \in FirstOks :
                     /\ HandlerStart(child[t], files[t], k) = "Ok"
                     /\ procs' = Append(procs, [owner |-> t, alive |-> TRUE])
                     /\ child'[t] = Len(procs')
           /\ (rpc'[t] = "off_notify" /\ rpc[t] # "off_notify")
                => \E k \in FirstOks :
                     /\ HandlerStop(child[t], k).result = "Ok"
                     /\ procs' = ProcsAfterStop(child[t], k)
           /\ (rpc'[t] = "on_log" /\ rpc[t] # "on_log") => rpc[t] = "on_notify"
           /\ (rpc'[t] = "off_log" /\ rpc[t] # "off_log") => rpc[t] = "off_notify"
           /\ runConn'[t] > runConn[t] => rpc[t] = "on_notify" ]_vars

\* A Runner has started its VPN process, sent and logged STATUS Connected,
\* stopped the process and sent STATUS Disconnected.
C11_Witness ==
  \E t \in Threads :
    /\ rpc[t] = "off_log"
    /\ \E p \in 1..Len(procs) : procs[p].owner = t /\ ~procs[p].alive

\* C12: the step a Runner takes from the point where it sends STATUS Connected
\* or STATUS Disconnected never leaves runner() with an error, whatever the
\* Notifier returns: the Runner goes on to the log line and the loop, with its
\* child handle and previous_command as they were.
C12_NotifierFailureKeepsRunner ==
  [][ \A t \in Threads :
        (rpc[t] \in {"on_notify", "off_notify"} /\ rpc'[t] # rpc[t]
           /\ ~notifierPoisoned)
          => /\ rpc'[t] \in {"on_log", "off_log", "loop"}
             /\ child'[t] = child[t]
             /\ previous_command'[t] = previous_command[t] ]_vars

\* C13: once a Runner's error has poisoned the logger mutex (the log of the
\* error failed inside the closure), the main thread still does not panic:
\* the accept loop goes on serving commands.
C13_RunnerErrorKeepsDaemonUp ==
  [][ (DaemonUp /\ loggerPoisoned) => DaemonUp' ]_vars

\* C14: Handler::start called while a child exists returns AlreadyExists
\* without a spawn attempt and leaves the child and the processes as they
\* were; the stop that follows it clears the handle, and returns Ok with that
\* child's process killed as soon as one of its kill attempts succeeds.
C14_StartTwiceIsRefused ==
  /\ (call.op = "start" /\ call.childBefore # 0)
       => /\ call.result = "AlreadyExists"
          /\ call.attempts = 0
          /\ child[TheHandler] = call.childBefore
          /\ procs = call.procsBefore
  /\ (call.op = "stop" /\ call.prevOp = "start"
         /\ call.prevResult = "AlreadyExists")
       => /\ call.childBefore # 0
          /\ child[TheHandler] = 0
          /\ call.firstOk <= KILL_ATTEMPTS
               => /\ call.result = "Ok"
                  /\ ~procs[call.childBefore].alive

\* start, a refused second start, and a stop that killed the process.
C14_Witness ==
  /\ call.op = "stop"
  /\ call.prevOp = "start"
  /\ call.prevResult = "AlreadyExists"
  /\ call.result = "Ok"
  /\ child[TheHandler] = 0
  /\ AliveProcs = {}

\* C15: Handler::stop called with no child returns Ok without a kill attempt
\* and leaves the handle None and the processes as they were; a stop called
\* right after a stop finds no child, so it is such a call and changes nothing.
C15_StopWithoutChildIsNoOp ==
  /\ (call.op = "stop" /\ call.childBefore = 0)
       => /\ call.result = "Ok"
          /\ call.attempts = 0
          /\ child[TheHandler] = 0
          /\ procs = call.procsBefore
  /\ (call.op = "stop" /\ call.prevOp = "stop")
       => /\ call.childBefore = 0
          /\ call.result = "Ok"
          /\ child[TheHandler] = 0
          /\ procs = call.procsBefore

\* A stop that killed the process, then a second stop.
C15_Witness ==
  /\ call.op = "stop"
  /\ call.prevOp = "stop"
  /\ call.prevResult = "Ok"
  /\ Len(procs) = 1
  /\ AliveProcs = {}

\* C16: the Handler's child is Some exactly when a process it spawned has not
\* been killed, and it is then that process; a stop whose kill attempts all
\* failed has returned its error with the child it was called on still held.
C16_ChildIffProcessNotKilled ==
  /\ child[TheHandler] # 0
       <=> \E p \in AliveProcs : procs[p].owner = TheHandler
  /\ child[TheHandler] # 0 => child[TheHandler] \in AliveProcs
  /\ (call.op = "stop" /\ call.result = "Other")
       => child[TheHandler] = call.childBefore

\* C17: Handler::start called with no child and profile files to choose from
\* returns an error after exactly 10 spawn attempts, with the handle None and
\* no process added, when every spawn fails; when the first successful spawn
\* is attempt k <= 10 it returns Ok after exactly k attempts with the new
\* process as its child.
C17_StartBoundedRetries ==
  (call.op = "start" /\ call.childBefore = 0 /\ files[TheHandler] > 0)
    => IF call.firstOk > 10
       THEN /\ call.result = "Other"
            /\ call.attempts = 10
            /\ child[TheHandler] = 0
            /\ procs = call.procsBefore
       ELSE /\ call.result = "Ok"
            /\ call.attempts = call.firstOk
            /\ child[TheHandler] = Len(procs)
            /\ procs = Append(call.procsBefore,
                              [owner |-> TheHandler, alive |-> TRUE])

\* A start whose first nine spawns failed and whose tenth succeeded.
C17_Witness ==
  /\ call.op = "start"
  /\ call.firstOk = 10
  /\ call.result = "Ok"
  /\ call.attempts = 10
  /\ child[TheHandler] # 0

\* C18: send_message returns Ok from write attempt k when writes 1..k-1
\* failed with the reconnect after each of them succeeding and write k <= 10
\* succeeds; so with nine failed writes and the tenth accepted it returns Ok
\* on the tenth. It returns Ok only from a write that succeeded.
C18_SendSucceedsWithinTen ==
  call.op = "send_message"
    => /\ (call.firstOk <= 10 /\ call.firstBad >= call.firstOk)
            => (call.result = "Ok" /\ call.writes = call.firstOk)
       /\ call.result = "Ok"
            => (call.writes = call.firstOk /\ Len(call.connects) = call.writes - 1)

\* Nine refused writes, nine reconnects, the tenth write accepted.
C18_Witness ==
  /\ call.op = "send_message"
  /\ call.firstOk = 10
  /\ call.result = "Ok"
  /\ call.writes = 10
  /\ Len(call.connects) = 9

\* C19 as stated: send_message makes at most 10 write attempts, follows each
\* failed write by a reconnect of at most 10 connect attempts, and returns an
\* error only after 10 failed write attempts.
C19_ErrorOnlyAfterTenWrites ==
  call.op = "send_message"
    => /\ call.writes \in 1..10
       /\ \A i \in 1..Len(call.connects) : call.connects[i] \in 1..10
       /\ call.result # "Ok"
            => (call.writes = 10 /\ Len(call.connects) = 10)

\* C19, amended: send_message makes at most 10 write attempts and follows each
\* failed write by a reconnect of at most 10 connect attempts; it returns an
\* error after 10 failed write attempts (BrokenPipe), or earlier, with the
\* error of connect (NotFound), right after the first reconnect whose 10
\* connect attempts all failed: a failed reconnect ends the send attempts.
C19_SendBoundedRetries ==
  call.op = "send_message"
    => /\ call.writes \in 1..10
       /\ call.result \in {"Ok", "BrokenPipe", "NotFound"}
       /\ Len(call.connects) = IF call.result = "Ok" THEN call.writes - 1
                                                     ELSE call.writes
       /\ \A i \in 1..Len(call.connects) : call.connects[i] \in 1..10
       /\ call.result = "BrokenPipe"
            => (call.writes = 10 /\ call.firstOk > 10 /\ call.firstBad > 10)
       /\ call.result = "NotFound"
            => /\ call.writes = call.firstBad
               /\ call.firstOk > call.firstBad
               /\ call.connects[call.writes] = 10
       /\ (call.firstBad < call.firstOk /\ call.firstBad <= 10)
            => (call.result = "NotFound" /\ call.writes = call.firstBad)

\* The first write failed and the reconnect after it failed: an error after
\* one write, though the second write would have been accepted.
C19_Witness ==
  /\ call.op = "send_message"
  /\ call.firstBad = 1
  /\ call.firstOk = 2
  /\ call.result = "NotFound"
  /\ call.writes = 1
  /\ call.connects = << 10 >>

\* The whole seconds from the header's second to the second of `now`.
WholeSecondsSince(now, secs) ==
  (IF now >= 0 THEN now \div TicksPerSecond
   ELSE 0 - ((TicksPerSecond - 1 - now) \div TicksPerSecond)) - secs

\* C20 as stated: on a valid header rotate_needed returns true exactly when
\* the whole seconds from the header's timestamp to now are more than 24
\* hours' worth.
C20_RotateIffOverADayInSeconds ==
  (call.op = "rotate_needed" /\ call.file.kind = "header")
    => /\ call.result \in {"true", "false"}
       /\ call.result = "true"
            <=> WholeSecondsSince(call.now, call.file.secs) > 24 * 3600

\* C20, amended: on a valid header rotate_needed returns true exactly when
\* now, at the precision of the clock, is more than 24 hours after the start
\* of the header's second: 24h+1s gives true, 23h59m false, 24 hours to the
\* tick false, and 24 hours and any fraction of a second true; a fresh
\* header gives false and a 25-hour-old one true.
C20_RotateIffOverADay ==
  (call.op = "rotate_needed" /\ call.file.kind = "header")
    => LET age == call.now - call.file.secs * TicksPerSecond
           day == 24 * 3600 * TicksPerSecond
       IN  /\ call.result \in {"true", "false"}
           /\ call.result = "true" <=> age > day
           /\ age = day + TicksPerSecond => call.result = "true"
           /\ age = day - 60 * TicksPerSecond => call.result = "false"
           /\ age = day => call.result = "false"
           /\ (age > day /\ age < day + TicksPerSecond) => call.result = "true"
           /\ age = 0 => call.result = "false"
           /\ age = 25 * 3600 * TicksPerSecond => call.result = "true"

\* A header 24 hours and a fraction of a second old: rotation is required.
C20_Witness ==
  /\ call.op = "rotate_needed"
  /\ call.file.kind = "header"
  /\ call.now - call.file.secs * TicksPerSecond = 24 * 3600 * TicksPerSecond + 1
  /\ WholeSecondsSince(call.now, call.file.secs) = 24 * 3600
  /\ call.result = "true"

\* C21: Logger::update on a missing log file goes into the rotation: it
\* returns Ok with the file created as the header line of now, or the I/O
\* error of the write; on a file that is empty, or whose first line lacks the
\* prefix or has a malformed timestamp, it returns the error of the check and
\* leaves the file as it was.
C21_UpdateMissingOrCorrupt ==
  call.op = "update"
    => /\ call.file.kind = "missing"
            => \/ /\ call.result = "Ok"
                  /\ call.after.kind = "header"
                  /\ call.after.lines = << HeaderLine(FormatTimestamp(call.now)) >>
               \/ /\ call.result = "IOError"
                  /\ call.after.kind \in {"missing", "empty"}
       /\ call.file.kind = "empty"
            => (call.result = "IOError" /\ call.after = call.file)
       /\ call.file.kind = "noprefix"
            => (call.result = "MissingPrefixError" /\ call.after = call.file)
       /\ call.file.kind = "badtime"
            => (call.result = "ParseError" /\ call.after = call.file)

\* An update that found no file and created it.
C21_Witness ==
  /\ call.op = "update"
  /\ call.file = Missing
  /\ call.result = "Ok"
  /\ call.after.kind = "header"

\* C22: after a rotate_logs that returned Ok, whatever file it found (none, an
\* unreadable one, one with any lines), the log file is exactly the header
\* line of the call's instant; and a rotate_needed called on that file
\* within a second of the rotation returns false and leaves it so.
C22_RotationLeavesHeaderOnly ==
  /\ (call.op = "rotate_logs" /\ call.result = "Ok")
       => /\ call.after.kind = "header"
          /\ call.after.lines = << HeaderLine(FormatTimestamp(call.now)) >>
          /\ call.after.secs * TicksPerSecond <= call.now
          /\ call.now < (call.after.secs + 1) * TicksPerSecond
  /\ (call.op = "rotate_needed" /\ call.prevOp = "rotate_logs")
       => /\ call.result = "false"
          /\ Len(call.file.lines) = 1
          /\ call.after = call.file

\* A rotation of a file with two entries under its header.
C22_Witness ==
  /\ call.op = "rotate_logs"
  /\ call.result = "Ok"
  /\ call.file.kind = "header"
  /\ Len(call.file.lines) = 3
  /\ Len(call.after.lines) = 1

\* A rotate_needed right after a rotation.
C22_WitnessNext ==
  /\ call.op = "rotate_needed"
  /\ call.prevOp = "rotate_logs"
  /\ call.result = "false"

\* C23: a Logger::log(X) that returns Ok found a file and left it with exactly
\* one more line, the last, which is `[<second of now>] > X`, every earlier
\* line, the header included, being as it was; on a missing file log returns
\* an I/O error and the file is still missing.
C23_LogAppendsOneLine ==
  call.op = "log"
    => /\ call.result = "Ok"
            => /\ call.file.kind \notin {"missing", "unreadable"}
               /\ Len(call.after.lines) = Len(call.file.lines) + 1
               /\ SubSeq(call.after.lines, 1, Len(call.file.lines)) = call.file.lines
               /\ call.after.lines[Len(call.after.lines)]
                    = EntryLine(FormatTimestamp(call.now), call.msg)
               /\ FormatTimestamp(call.now) * TicksPerSecond <= call.now
               /\ call.now - FormatTimestamp(call.now) * TicksPerSecond < TicksPerSecond
       /\ call.file.kind = "missing"
            => (call.result = "IOError" /\ call.after = Missing)
       /\ call.result # "Ok" => call.after = call.file

\* A line logged under a header and an entry.
C23_Witness ==
  /\ call.op = "log"
  /\ call.result = "Ok"
  /\ call.file.kind = "header"
  /\ Len(call.file.lines) = 2
  /\ Len(call.after.lines) = 3
  /\ call.after.lines[3].msg = "STATUS Connected"

\* A log on a missing file.
C23_WitnessMissing ==
  /\ call.op = "log"
  /\ call.file = Missing
  /\ call.result = "IOError"

\* ------------------------------------------------------------------ C24
\* The main thread executes a logger.lock().unwrap().log(..) of the accept
\* loop or of write_to_stream.
MainLogs == dpc \in {"start_log", "stop_log", "rderr_log"} /\ dpc' # dpc

\* Runner t executes a logger.lock().unwrap().log(..) of its loop or of the
\* closure's Err arm.
RunnerLogs(t) == rpc[t] \in {"on_log", "off_log", "err"} /\ rpc'[t] # rpc[t]

\* C24: a log rotation and a log append never overlap. Between the removal of
\* the old file and the write of the new header the hourly task holds the
\* logger mutex, and no log call of the main thread or of a Runner executes in
\* that window: none writes a line between the delete and the header write.
C24_RotationExcludesAppend ==
  [][ /\ (hpc = "rotating" => loggerOwner = "hourly")
      /\ ((MainLogs \/ \E t \in Threads : RunnerLogs(t))
            => (hpc # "rotating" /\ loggerOwner = Free)) ]_vars

\* A rotation is between its delete and its header write while the main thread
\* and a Runner both stand at a log call.
C24_Witness ==
  /\ hpc = "rotating"
  /\ loggerOwner = "hourly"
  /\ dpc = "start_log"
  /\ wmsg = NoMsg
  /\ \E t \in Threads : rpc[t] \in {"on_log", "err"}

\* ------------------------------------------------------------------ C27
\* C27: in the hourly task every failure of Logger::update is followed by an
\* attempt to send "FAIL - .." through the Notifier, also when the failure
\* could not be written to the log: the step that leaves the Err arm's log
\* call goes on to the notifier.
C27_UpdateFailureIsNotified ==
  [][ (hpc = "failed" /\ hpc' # hpc) => hpc' = "notify" ]_vars

\* ------------------------------------------------------------------ C25
\* A step of the main thread that processes `status`: the match arm, or a
\* step of the write_to_stream of its reply that the daemon survives.
StatusStep ==
  \/ dpc = "read" /\ command' = CmdStatus
  \/ /\ command = CmdStatus
     /\ wmsg # NoMsg
     /\ << wmsg', attempt', replies' >> # << wmsg, attempt, replies >>
     /\ dpc' # "panicked"

\* C25: `status` is a pure query. Processing it leaves `process` (the tracked
\* Runner handle), the handle being joined, KILL_RUNNER, every Runner's state
\* and the VPN processes as they were, whether or not a Runner is tracked.
C25_StatusIsPureQuery ==
  [][ StatusStep => UNCHANGED << process, handle, KILL_RUNNER, runnerVars >> ]_vars

\* `status` has been answered while a Runner is tracked and its VPN process
\* runs.
C25_Witness ==
  /\ command = CmdStatus
  /\ dpc = "accept"
  /\ replies = << "Daemon is running" >>
  /\ process # 0
  /\ RunnerAlive(process)
  /\ child[process] # 0

\* `status` has been answered while no Runner is tracked, after a `stop` left
\* the flag set.
C25_WitnessUntracked ==
  /\ command = CmdStatus
  /\ dpc = "accept"
  /\ replies = << "Daemon is not running" >>
  /\ process = 0
  /\ KILL_RUNNER

\* ------------------------------------------------------------------ C26
\* The `_` arm of `match command.as_str()` is taken for c.
OtherCommand(c) == c \notin {NoCommand, CmdStatus, CmdStart, CmdStop}

\* C26: a command other than status, start and stop is answered with
\* "Received invalid command!" and with nothing else, the arm and the write of
\* its reply change neither the tracked handle nor KILL_RUNNER, and with the
\* reply written the accept loop stands at the next connection.
C26_InvalidCommandIsRefused ==
  /\ [][ (dpc = "read" /\ OtherCommand(command'))
           => /\ wmsg' = "Received invalid command!"
              /\ dpc' = "accept"
              /\ UNCHANGED << process, handle, KILL_RUNNER >> ]_vars
  /\ [][ (OtherCommand(command) /\ wmsg # NoMsg /\ dpc' # "panicked"
            /\ << wmsg', attempt', replies' >> # << wmsg, attempt, replies >>)
           => /\ UNCHANGED << process, handle, KILL_RUNNER, dpc >>
              /\ wmsg' # wmsg => << wmsg', replies' >>
                                   = << NoMsg, << "Received invalid command!" >> >> ]_vars
  /\ [](OtherCommand(command) /\ wmsg = NoMsg /\ DaemonUp
          => (Served /\ replies = << "Received invalid command!" >>))

\* An invalid command has been answered while a Runner is tracked and no
\* cancellation is under way: the daemon is at the next accept.
C26_Witness ==
  /\ OtherCommand(command)
  /\ Served
  /\ replies = << "Received invalid command!" >>
  /\ process # 0
  /\ ~KILL_RUNNER

\* ------------------------------------------------------------------ C30
\* C30: a Runner that finds KILL_RUNNER set at the top of its loop calls
\* Handler::stop whatever its last acted command is (its child handle is taken
\* and the kill loop has run on the process), goes to the end of runner() with
\* stop's result and from there only out of the closure, never to a serial
\* read; and a serial read is entered only from the top of the loop with the
\* flag found clear.
C30_CancelStopsAndExits ==
  [][ \A t \in Threads :
        /\ (rpc[t] = "loop" /\ KILL_RUNNER /\ rpc'[t] # rpc[t])
             => /\ rpc'[t] \in {"reset", "err"}
                /\ child'[t] = 0
                /\ \E k \in FirstOks :
                     /\ procs' = ProcsAfterStop(child[t], k)
                     /\ (rpc'[t] = "reset") = (HandlerStop(child[t], k).result = "Ok")
        /\ (rpc[t] \in {"reset", "err"} /\ rpc'[t] # rpc[t])
             => rpc'[t] \in {"done", "panicked"}
        /\ (rpc'[t] = "read" /\ rpc[t] # "read")
             => (rpc[t] = "loop" /\ ~KILL_RUNNER) ]_vars

\* A Runner whose last acted command is Turn On has been cancelled: its VPN
\* process is killed and it stands at the end of runner().
C30_Witness ==
  \E t \in Threads :
    /\ rpc[t] = "reset"
    /\ KILL_RUNNER
    /\ previous_command[t] = ON
    /\ child[t] = 0
    /\ \E p \in 1..Len(procs) : procs[p].owner = t /\ ~procs[p].alive

\* A Runner that never acted on a Turn On has been cancelled.
C30_WitnessIdle ==
  \E t \in Threads :
    /\ rpc[t] = "reset"
    /\ KILL_RUNNER
    /\ previous_command[t] = OFF
    /\ \A p \in 1..Len(procs) : procs[p].owner # t

\* ------------------------------------------------------------------ C28
\* The elements of the Vec fs.
Range(fs) == { fs[i] : i \in 1..Len(fs) }

\* Every regular file below directory dir at path, by its path.
RECURSIVE FilesBelow(_, _)
FilesBelow(path, dir) ==
  UNION { IF dir.entries[i].kind \in {"dir", "lockeddir"}
          THEN FilesBelow(PathJoin(path, dir.entries[i].name), dir.entries[i])
          ELSE { PathJoin(path, dir.entries[i].name) } : i \in 1..Len(dir.entries) }

\* The tree has the shape of the config directory: the credentials file
\* auth.txt in main_dir, and no other entry of that name.
HasCredentialsFile(tree) ==
  /\ \E i \in 1..Len(tree.entries) : tree.entries[i] = FileEntry("auth.txt")
  /\ \A i \in 1..Len(tree.entries) :
       \A j \in 1..Len(tree.entries[i].entries) :
         tree.entries[i].entries[j].name # "auth.txt"

\* C28: on a tree of profile files with the credentials file auth.txt,
\* File::init collects exactly the files other than the credentials file, each
\* once, and every path that get_random_file_path returns is one of them and
\* is not the auth.txt path.
C28_DiscoveryExcludesCredentials ==
  (call.op \in {"init", "get_random_file_path"} /\ call.handler = "Ok"
     /\ HasCredentialsFile(call.tree))
    => /\ Range(call.files) = FilesBelow(MainDir, call.tree) \ {Auth}
       /\ Cardinality(Range(call.files)) = Len(call.files)
       /\ (call.op = "get_random_file_path" /\ call.result = "Ok")
            => /\ call.path \in FilesBelow(MainDir, call.tree)
               /\ call.path \in Range(call.files)
               /\ call.path # Auth

\* Three profile files, one of them in a directory, and auth.txt read first:
\* three paths are collected and the last of them is drawn.
C28_Witness ==
  /\ call.op = "get_random_file_path"
  /\ call.result = "Ok"
  /\ HasCredentialsFile(call.tree)
  /\ call.tree.entries[1] = FileEntry("auth.txt")
  /\ Len(call.files) = 3
  /\ "/home/kwunch/VPN/us/a.ovpn" \in Range(call.files)
  /\ call.path = call.files[3]

\* ------------------------------------------------------------------ C29
\* C29: on a tree without a profile file, discovery returns an error, so that
\* Handler::new fails, and get_random_file_path on an empty set returns an
\* error: it neither panics nor returns a path.
C29_NoProfilesIsAnError ==
  /\ (call.op = "init" /\ call.files = << >>) => call.handler # "Ok"
  /\ (call.op = "get_random_file_path" /\ call.files = << >>)
       => call.result \notin {"Ok", "panic"}

\* ------------------------------------------------------------------ C31
\* The bytes of one port.read that match neither arm: an empty read, or a
\* message other than "Turn On" and "Turn Off".
Unrecognized(bytes) ==
  \/ Len(ReadInto(SERIAL_BUFFER_LEN, bytes)) = 0
  \/ Trim(ReadInto(SERIAL_BUFFER_LEN, bytes)) \notin {MsgTurnOn, MsgTurnOff}

\* C31: at the top of every iteration of the Runner's loop, and at the serial
\* read after it, the Handler holds a child handle iff previous_command is 255
\* (Turn On); so a Handler::start is called only while no handle is held; and
\* an unrecognized or empty serial read changes neither previous_command nor
\* the handle.
C31_HandleIffTurnedOn ==
  /\ [](\A t \in Threads :
          rpc[t] \in {"loop", "read"}
            => ((child[t] # 0) = (previous_command[t] = ON)))
  /\ [][ \A t \in Threads :
           /\ (rpc[t] = "read" /\ runStarts'[t] = runStarts[t] + 1)
                => child[t] = 0
           /\ \A bytes \in SerialBytes :
                (Unrecognized(bytes) /\ RunnerRead(t, bytes))
                  => /\ rpc'[t] = "loop"
                     /\ previous_command'[t] = previous_command[t]
                     /\ child'[t] = child[t] ]_vars

\* A Runner is back at the top of its loop holding the handle of its VPN
\* process after a second "Turn On" was read.
C31_Witness ==
  \E t \in Threads :
    /\ rpc[t] = "loop"
    /\ runOns[t] = MaxRun
    /\ previous_command[t] = ON
    /\ child[t] # 0

\* A Runner is back at the top of its loop with no handle after a "Turn Off"
\* that was acted on.
C31_WitnessOff ==
  \E t \in Threads :
    /\ rpc[t] = "loop"
    /\ previous_command[t] = OFF
    /\ child[t] = 0
    /\ \E p \in 1..Len(procs) : procs[p].owner = t /\ ~procs[p].alive

\* ------------------------------------------------------------------ C32
\* Runner t holds the notifier mutex and waits in logger.lock() for the logger
\* mutex that the hourly task holds.
RunnerWaitsForHourly(t) ==
  /\ RunnerAlive(t)
  /\ rpc[t] \in {"on_log", "off_log"}
  /\ notifierOwner = t
  /\ loggerOwner = "hourly"

\* The hourly task holds the logger mutex and waits in notifier.lock() for
\* the notifier mutex that Runner t holds.
HourlyWaitsForRunner(t) ==
  /\ DaemonUp
  /\ hpc = "notify"
  /\ loggerOwner = "hourly"
  /\ notifierOwner = t

\* C32: in no reachable state are a Runner and the hourly task each blocked on
\* the mutex the other holds.
C32_NoLockCycle ==
  \A t \in Threads : ~(RunnerWaitsForHourly(t) /\ HourlyWaitsForRunner(t))

\* ------------------------------------------------------------------ C33
\* C33: write_to_stream ends for every behaviour of the client stream: within
\* one call at most 6 writes are attempted and at most one log entry is
\* written, also when every write fails.
C33_WriteToStreamIsBounded ==
  call.op = "write_to_stream"
    => (call.writes <= WRITE_RETRIES + 1 /\ call.logs <= 1)

\* ------------------------------------------------------------------ C34
\* Runner t calls handler.start() in the "Turn On" arm.
StartCalled(t) ==
  /\ rpc[t] = "read"
  /\ runStarts'[t] = runStarts[t] + 1 \/ rpc'[t] = "panicked"

\* Runner t calls handler.stop() in the "Turn Off" arm.
StopCalled(t) ==
  /\ rpc[t] = "read"
  /\ \/ rpc'[t] = "off_notify"
     \/ rpc'[t] = "err" /\ runStarts'[t] < runStarts[t]

\* Runner t's send_message of a status returns Ok.
Emits(t, at) == rpc[t] = at /\ rpc'[t] \notin {at, "err", "panicked"}

\* C34: within one Runner the Handler calls caused by serial messages
\* alternate start, stop, start, .. beginning with start (a start is called
\* only with previous_command 0 and makes it 255, a stop only with 255 and
\* makes it 0, and nothing else changes it), the statuses sent alternate
\* Connected, Disconnected, .. beginning with Connected, and a "Turn Off" read
\* while previous_command is 0, as in a fresh Runner, causes no Handler call,
\* no notification and no log line.
C34_CallsAndStatusesAlternate ==
  [][ \A t \in Threads :
        /\ StartCalled(t)
             => /\ previous_command[t] = OFF
                /\ emitted[t] # "STATUS Connected"
                /\ rpc'[t] # "panicked" => previous_command'[t] = ON
        /\ StopCalled(t)
             => /\ previous_command[t] = ON
                /\ previous_command'[t] = OFF
        /\ previous_command'[t] # previous_command[t]
             => (StartCalled(t) \/ StopCalled(t) \/ rpc'[t] \in {"done", "panicked"})
        /\ Emits(t, "on_notify")
             => /\ emitted[t] \in {NoStatus, "STATUS Disconnected"}
                /\ emitted'[t] = "STATUS Connected"
        /\ Emits(t, "off_notify")
             => /\ emitted[t] = "STATUS Connected"
                /\ emitted'[t] = "STATUS Disconnected"
        /\ emitted'[t] # emitted[t]
             => (Emits(t, "on_notify") \/ Emits(t, "off_notify")
                 \/ rpc'[t] \in {"done", "panicked"})
        /\ \A bytes \in SerialBytes :
             (/\ Trim(ReadInto(SERIAL_BUFFER_LEN, bytes)) = MsgTurnOff
              /\ previous_command[t] = OFF
              /\ RunnerRead(t, bytes))
               => /\ rpc'[t] = "loop"
                  /\ UNCHANGED << previous_command, child, procs, emitted,
                                  lockVars >> ]_vars

\* A Runner has gone through start, Connected, stop, Disconnected, start,
\* Connected: its first VPN process is killed and its second one runs.
C34_Witness ==
  \E t \in Threads :
    /\ rpc[t] = "loop"
    /\ emitted[t] = "STATUS Connected"
    /\ previous_command[t] = ON
    /\ Len(procs) = 2
    /\ procs[1].owner = t /\ ~procs[1].alive
    /\ procs[2].owner = t /\ procs[2].alive
    /\ child[t] = 2

\* ------------------------------------------------------------------ C35
\* Runner t, whose last acted command is Turn On, finds KILL_RUNNER set.
CancelledWhileConnected(t) ==
  /\ rpc[t] = "loop"
  /\ KILL_RUNNER
  /\ previous_command[t] = ON
  /\ rpc'[t] # rpc[t]

\* C35: the cancellation of a connected Runner emits nothing. The step calls
\* Handler::stop on the VPN process (killed when stop returns Ok) and goes to
\* the end of runner(), not to the points where STATUS Disconnected is sent
\* and the status change logged; the status the Runner last sent stays
\* STATUS Connected until its closure ends, which it does next.
C35_CancellationEmitsNothing ==
  [][ \A t \in Threads :
        /\ CancelledWhileConnected(t)
             => /\ emitted[t] = "STATUS Connected"
                /\ emitted'[t] = "STATUS Connected"
                /\ rpc'[t] \in {"reset", "err"}
                /\ child[t] # 0 /\ child'[t] = 0
                /\ rpc'[t] = "reset" => ~procs'[child[t]].alive
                /\ notifierOwner' = notifierOwner
        /\ (rpc[t] \in {"reset", "err"} /\ rpc'[t] # rpc[t])
             => /\ rpc'[t] \in {"done", "panicked"}
                /\ emitted'[t] \in {emitted[t], NoStatus} ]_vars

\* A connected Runner has been cancelled by `stop`: its VPN process is killed,
\* it is about to leave, and the last status it sent is STATUS Connected.
C35_Witness ==
  \E t \in Threads :
    /\ rpc[t] = "reset"
    /\ dpc = "join"
    /\ handle = t
    /\ previous_command[t] = ON
    /\ emitted[t] = "STATUS Connected"
    /\ \E p \in 1..Len(procs) : procs[p].owner = t /\ ~procs[p].alive
    /\ \A p \in 1..Len(procs) : procs[p].owner = t => ~procs[p].alive


====
